---- MODULE Spec2Model ----
(***************************************************************************)
(* Model of pandas_questions.py: the referendum pipeline                   *)
(*   load_data -> merge_regions_and_departments ->                         *)
(*   merge_referendum_and_areas -> compute_referendum_result_by_regions -> *)
(*   plot_referendum_map                                                   *)
(* A DataFrame is a record [type, columns, rows]: columns is the sequence  *)
(* of column labels, rows the sequence of rows in frame order, each row a  *)
(* function from column label to cell.  A missing cell (NaN) is the empty  *)
(* set and a present cell of a nullable column is a singleton set, so that *)
(* a missing cell compares unequal to every value.                         *)
(***************************************************************************)
EXTENDS Integers, Sequences, FiniteSets, TLC

VARIABLES
    pc,                       \* the caller's position in the pipeline
    referendum,               \* DataFrame read from referendum.csv
    regions,                  \* DataFrame read from regions.csv (df_reg)
    departments,              \* DataFrame read from departments.csv (df_dep)
    regions_and_departments,  \* value bound by merge_regions_and_departments
    referendum_and_areas,     \* value bound by merge_referendum_and_areas
    referendum_results,       \* value the caller binds before plotting
    regions_geo,              \* GeoDataFrame read inside plot_referendum_map
    merged_geo,               \* value returned by plot_referendum_map
    raised                    \* the exception that ended the run, or "none"

vars == <<pc, referendum, regions, departments, regions_and_departments,
          referendum_and_areas, referendum_results, regions_geo, merged_geo,
          raised>>

(***************************************************************************)
(* Bounds of the explored inputs: rows per input table.                    *)
(***************************************************************************)
MaxRegions == 2
MaxDepartments == 2
MaxBallots == 2

(***************************************************************************)
(* Python values.                                                          *)
(***************************************************************************)
None == [type |-> "NoneType"]
NaN == {}
Some(v) == {v}
Val(cell) == CHOOSE v \in cell : TRUE

DataFrame(cols, rws) == [type |-> "DataFrame", columns |-> cols, rows |-> rws]
IsDataFrame(v) == v.type = "DataFrame"

Range(s) == {s[i] : i \in 1..Len(s)}

RECURSIVE Flatten(_)
Flatten(ss) == IF ss = <<>> THEN <<>> ELSE Head(ss) \o Flatten(Tail(ss))

SeqsUpTo(S, n) == UNION {[1..k -> S] : k \in 0..n}

(***************************************************************************)
(* The contents the three CSV files and the geojson file may have.         *)
(***************************************************************************)
RegionsColumns == <<"code", "name">>
DepartmentsColumns == <<"region_code", "code", "name">>
ReferendumColumns ==
    <<"Department code", "Department name", "Town code", "Town name",
      "Registered", "Abstentions", "Null", "Choice A", "Choice B">>
GeoColumns == <<"code", "nom", "geometry">>

RegionRow(code, name) == ("code" :> code) @@ ("name" :> name)

DepartmentRow(code, name, region_code) ==
    ("region_code" :> region_code) @@ ("code" :> code) @@ ("name" :> name)

BallotRow(code, town, t) ==
    ("Department code" :> code) @@ ("Department name" :> "Department")
        @@ ("Town code" :> town) @@ ("Town name" :> "Town")
        @@ ("Registered" :> t.Registered) @@ ("Abstentions" :> t.Abstentions)
        @@ ("Null" :> t.Null) @@ ("Choice A" :> t.A) @@ ("Choice B" :> t.B)

GeoRow(code) ==
    ("code" :> code) @@ ("nom" :> code) @@ ("geometry" :> <<"polygon", code>>)

\* Rows regions.csv may hold: a region, the same code under another name, the
\* same code with the name cell empty, and a second region.
RegionRows ==
    { RegionRow("84", Some("Auvergne-Rhone-Alpes")),
      RegionRow("84", Some("Rhone-Alpes")),
      RegionRow("84", NaN),
      RegionRow("11", Some("Ile-de-France")) }

\* Rows departments.csv may hold: a mainland department (under either
\* region) and a code of the citizens living abroad.
DepartmentRows ==
    { DepartmentRow("01", "Ain", "84"),
      DepartmentRow("01", "Ain", "11"),
      DepartmentRow("ZA", "Abroad", "84") }

\* Department codes as referendum.csv writes them (an object column, since
\* "2A", "ZA", ... are not numbers): mainland codes without the leading zero.
BallotCodes == {"1", "01", "971", "ZA"}

\* One row per municipality: the town code is the row's position in the file,
\* and the municipality's tallies go with it (odd rows have expressed votes,
\* even rows have none).
TallyOf(town) ==
    IF town % 2 = 1
    THEN [Registered |-> 100, Abstentions |-> 10, Null |-> 2, A |-> 50, B |-> 38]
    ELSE [Registered |-> 7, Abstentions |-> 6, Null |-> 1, A |-> 0, B |-> 0]

RegionsFiles ==
    { DataFrame(RegionsColumns, s) : s \in SeqsUpTo(RegionRows, MaxRegions) }

DepartmentsFiles ==
    { DataFrame(DepartmentsColumns, s) :
        s \in SeqsUpTo(DepartmentRows, MaxDepartments) }

ReferendumFiles ==
    { DataFrame(ReferendumColumns,
                [i \in DOMAIN s |-> BallotRow(s[i], i, TallyOf(i))]) :
        s \in SeqsUpTo(BallotCodes, MaxBallots) }

GeoFiles ==
    { DataFrame(GeoColumns, [i \in DOMAIN s |-> GeoRow(s[i])]) :
        s \in {<<"84">>, <<"11", "84">>} }

(***************************************************************************)
(* pandas operations used by the pipeline.                                 *)
(***************************************************************************)
\* DataFrame.rename(columns=m): a new frame, the argument is left alone.
NewLabel(m, c) == IF c \in DOMAIN m THEN m[c] ELSE c

Rename(df, m) ==
    DataFrame([i \in DOMAIN df.columns |-> NewLabel(m, df.columns[i])],
              [i \in DOMAIN df.rows |->
                  [c \in {NewLabel(m, o) : o \in DOMAIN df.rows[i]} |->
                      df.rows[i][CHOOSE o \in DOMAIN df.rows[i] : NewLabel(m, o) = c]]])

\* df[[c1, c2, ...]]: the listed columns, in the listed order.
Select(df, cols) ==
    DataFrame(cols, [i \in DOMAIN df.rows |-> [c \in Range(cols) |-> df.rows[i][c]]])

\* str.startswith with a tuple of prefixes.
StartsWith(s, p) == Len(s) >= Len(p) /\ SubSeq(s, 1, Len(p)) = p
StartsWithAny(s, prefixes) == \E p \in prefixes : StartsWith(s, p)

\* pd.merge(left, right, left_on=, right_on=, how=) for how in {"left", "inner"}:
\* left rows in order, each followed by its matches in right order; a left row
\* without a match is dropped by "inner" and kept with NaN cells by "left".
\* A key column shared by name (on=) appears once.
RightOnly(left, right) ==
    SelectSeq(right.columns, LAMBDA c : c \notin Range(left.columns))

Merge(left, right, left_on, right_on, how) ==
    LET added == RightOnly(left, right)
        missing == [c \in Range(added) |-> NaN]
        joined(l) ==
            LET matches == SelectSeq(right.rows, LAMBDA r : r[right_on] = l[left_on])
            IN IF matches = <<>>
               THEN IF how = "left" THEN <<l @@ missing>> ELSE <<>>
               ELSE [j \in DOMAIN matches |->
                        l @@ [c \in Range(added) |-> matches[j][c]]]
    IN DataFrame(left.columns \o added,
                 Flatten([i \in DOMAIN left.rows |-> joined(left.rows[i])]))

(***************************************************************************)
(* load_data                                                               *)
(***************************************************************************)
Load ==
    /\ pc = "start"
    /\ referendum' \in ReferendumFiles
    /\ regions' \in RegionsFiles
    /\ departments' \in DepartmentsFiles
    /\ pc' = "loaded"
    /\ UNCHANGED <<regions_and_departments, referendum_and_areas,
                   referendum_results, regions_geo, merged_geo, raised>>

(***************************************************************************)
(* merge_regions_and_departments                                           *)
(***************************************************************************)
\* Variant: the join written with how="inner".
merge_regions_and_departments_inner(regs, deps) ==
    LET regs2 == Rename(regs, ("code" :> "code_reg") @@ ("name" :> "name_reg"))
        deps2 == Rename(deps, ("region_code" :> "code_reg")
                                @@ ("code" :> "code_dep") @@ ("name" :> "name_dep"))
        merged_df == Merge(deps2, regs2, "code_reg", "code_reg", "inner")
    IN Select(merged_df, <<"code_reg", "name_reg", "code_dep", "name_dep">>)

merge_regions_and_departments(regs, deps) ==
    LET regs2 == Rename(regs, ("code" :> "code_reg") @@ ("name" :> "name_reg"))
        deps2 == Rename(deps, ("region_code" :> "code_reg")
                                @@ ("code" :> "code_dep") @@ ("name" :> "name_dep"))
        merged_df == Merge(deps2, regs2, "code_reg", "code_reg", "left")
    IN Select(merged_df, <<"code_reg", "name_reg", "code_dep", "name_dep">>)

MergeRegionsAndDepartments ==
    /\ pc = "loaded"
    /\ regions_and_departments' = merge_regions_and_departments(regions, departments)
    /\ pc' = "merged_areas"
    /\ UNCHANGED <<referendum, regions, departments, referendum_and_areas,
                   referendum_results, regions_geo, merged_geo, raised>>

(***************************************************************************)
(* merge_referendum_and_areas                                              *)
(***************************************************************************)
\* Series.astype(str) on the object column of code strings: each cell is
\* already a str and is kept as it is written in the file (no padding).
AsTypeStr(code) == code

OverseasPrefixes == {"97", "98", "99"}

\* referendum[~referendum["Department code"].astype(str).str.startswith(...)]:
\* the rows whose code has none of the prefixes, in frame order.
NotOverseas(ref) ==
    DataFrame(ref.columns,
              SelectSeq(ref.rows, LAMBDA r :
                  ~StartsWithAny(AsTypeStr(r["Department code"]), OverseasPrefixes)))

ReferendumAndAreasColumns ==
    <<"Department code", "Department name", "Town code", "Town name",
      "Registered", "Abstentions", "Null", "Choice A", "Choice B",
      "code_dep", "code_reg", "name_reg", "name_dep">>

\* pd.merge(..., how="cross"): every left row with every right row.
CrossMerge(left, right) ==
    DataFrame(left.columns \o RightOnly(left, right),
              Flatten([i \in DOMAIN left.rows |->
                          [j \in DOMAIN right.rows |->
                              left.rows[i] @@ right.rows[j]]]))

\* Variant: the join written with how="cross".
merge_referendum_and_areas_cross(ref, areas) ==
    LET kept == NotOverseas(ref)
    IN Select(CrossMerge(kept, areas), ReferendumAndAreasColumns)

\* Variant: the join written with how="left".
merge_referendum_and_areas_left(ref, areas) ==
    LET kept == NotOverseas(ref)
    IN Select(Merge(kept, areas, "Department code", "code_dep", "left"),
              ReferendumAndAreasColumns)

merge_referendum_and_areas(ref, areas) ==
    LET kept == NotOverseas(ref)
        merged_df == Merge(kept, areas, "Department code", "code_dep", "inner")
    IN Select(merged_df, ReferendumAndAreasColumns)

MergeReferendumAndAreas ==
    /\ pc = "merged_areas"
    /\ referendum_and_areas' =
           merge_referendum_and_areas(referendum, regions_and_departments)
    /\ pc' = "merged_referendum"
    /\ UNCHANGED <<referendum, regions, departments, regions_and_departments,
                   referendum_results, regions_geo, merged_geo, raised>>

(***************************************************************************)
(* compute_referendum_result_by_regions                                    *)
(***************************************************************************)
\* Order of str keys (code points: digits before upper-case letters).
Alphabet == "0123456789ABCDEFGHIJKLMNOPQRSTUVWXYZ"
CodePoint(ch) == CHOOSE i \in 1..Len(Alphabet) : SubSeq(Alphabet, i, i) = ch

RECURSIVE StrLess(_, _)
StrLess(a, b) ==
    IF Len(b) = 0 THEN FALSE
    ELSE IF Len(a) = 0 THEN TRUE
    ELSE LET ca == CodePoint(SubSeq(a, 1, 1))
             cb == CodePoint(SubSeq(b, 1, 1))
         IN \/ ca < cb
            \/ ca = cb /\ StrLess(SubSeq(a, 2, Len(a)), SubSeq(b, 2, Len(b)))

RECURSIVE Sorted(_)
Sorted(S) ==
    IF S = {} THEN <<>>
    ELSE LET least == CHOOSE x \in S : \A y \in S \ {x} : StrLess(x, y)
         IN <<least>> \o Sorted(S \ {least})

\* GroupBy aggregations: "sum" adds the cells of the group; "first" is the
\* first cell of the group that is not missing (NaN when every cell is).
RECURSIVE AggSum(_)
AggSum(cells) == IF cells = <<>> THEN 0 ELSE Head(cells) + AggSum(Tail(cells))

\* Variant: the cell of the first row of the group, missing or not.
AggFirstRow(cells) == IF cells = <<>> THEN NaN ELSE Head(cells)

AggFirst(cells) ==
    LET present == SelectSeq(cells, LAMBDA c : c # NaN)
    IN IF present = <<>> THEN NaN ELSE Head(present)

Column(rws, c) == [i \in DOMAIN rws |-> rws[i][c]]

ResultColumns ==
    <<"name_reg", "Registered", "Abstentions", "Null", "Choice A", "Choice B">>

\* A frame indexed by a named column: the index label of a row is its cell
\* under that name, which is not one of the frame's columns.
IndexedFrame(idx, cols, rws) ==
    [type |-> "DataFrame", index |-> idx, columns |-> cols, rows |-> rws]

\* groupby("code_reg").agg({...}): one row per key, keys in sorted order.
compute_referendum_result_by_regions(areas) ==
    LET keys == Sorted({areas.rows[i]["code_reg"] : i \in DOMAIN areas.rows})
        agg(k) ==
            LET group == SelectSeq(areas.rows, LAMBDA r : r["code_reg"] = k)
            IN ("code_reg" :> k)
               @@ ("name_reg" :> AggFirst(Column(group, "name_reg")))
               @@ ("Registered" :> AggSum(Column(group, "Registered")))
               @@ ("Abstentions" :> AggSum(Column(group, "Abstentions")))
               @@ ("Null" :> AggSum(Column(group, "Null")))
               @@ ("Choice A" :> AggSum(Column(group, "Choice A")))
               @@ ("Choice B" :> AggSum(Column(group, "Choice B")))
    IN IndexedFrame("code_reg", ResultColumns, [i \in DOMAIN keys |-> agg(keys[i])])

ComputeReferendumResultByRegions ==
    /\ pc = "merged_referendum"
    /\ referendum_results' = compute_referendum_result_by_regions(referendum_and_areas)
    /\ pc' = "results_bound"
    /\ UNCHANGED <<referendum, regions, departments, regions_and_departments,
                   referendum_and_areas, regions_geo, merged_geo, raised>>

(***************************************************************************)
(* plot_referendum_map                                                     *)
(***************************************************************************)
RECURSIVE GCD(_, _)
GCD(a, b) == IF b = 0 THEN a ELSE GCD(b, a % b)

\* A float quotient n / d (d > 0), kept as the fraction in lowest terms.
Quotient(n, d) == <<n \div GCD(n, d), d \div GCD(n, d)>>
Zero == Quotient(0, 1)

\* Variant: the division left unguarded (0 / 0 is nan for numpy integers).
ratio_unguarded(row) ==
    IF row["Choice A"] + row["Choice B"] > 0
    THEN Quotient(row["Choice A"], row["Choice A"] + row["Choice B"])
    ELSE <<0, 0>>

\* The lambda applied to each row.
ratio(row) ==
    IF row["Choice A"] + row["Choice B"] > 0
    THEN Quotient(row["Choice A"], row["Choice A"] + row["Choice B"])
    ELSE Zero

\* frame["ratio"] = frame.apply(lambda row: ..., axis=1): the column is set on
\* the frame itself.
WithRatio(frame) ==
    [frame EXCEPT
        !.columns = IF "ratio" \in Range(@) THEN @ ELSE Append(@, "ratio"),
        !.rows = [i \in DOMAIN @ |-> ("ratio" :> ratio(@[i])) @@ @[i]]]

\* The cells a left merge takes from the right frame are floats once a row
\* may miss them: Some(value), or NaN.
AsFloats(frame, cols) ==
    [frame EXCEPT !.rows =
        [i \in DOMAIN @ |->
            [c \in DOMAIN @[i] |-> IF c \in cols THEN Some(@[i][c]) ELSE @[i][c]]]]

NumericColumns == {"Registered", "Abstentions", "Null", "Choice A", "Choice B", "ratio"}

\* What line 146 can do with the value it is given.  A value that is not a
\* frame has no .apply.  On a frame without rows, apply(axis=1) returns a
\* copy of the (empty) frame rather than a Series, and setting a column to a
\* frame of several columns is refused by pandas 2 and accepted by pandas 1.
RatioOutcomes(value) ==
    IF ~IsDataFrame(value) THEN {"AttributeError"}
    ELSE IF value.rows = <<>> THEN {"ValueError", "none"}
    ELSE {"none"}

\* Variant: the join with the geometry written with how="inner".
merge_geo_inner(geo, results) ==
    Merge(geo, AsFloats(results, NumericColumns), "code", "code_reg", "inner")

\* regions_geo.merge(results, left_on="code", right_on="code_reg", how="left"):
\* code_reg is the index of results; the key of the merged frame is "code".
merge_geo(geo, results) ==
    Merge(geo, AsFloats(results, NumericColumns), "code", "code_reg", "left")

PlotReferendumMap ==
    /\ pc = "results_bound"
    /\ regions_geo' \in GeoFiles
    /\ raised' \in RatioOutcomes(referendum_results)
    /\ IF raised' = "none"
       THEN /\ referendum_results' = WithRatio(referendum_results)
            /\ merged_geo' = merge_geo(regions_geo', referendum_results')
            /\ pc' = "done"
       ELSE /\ pc' = "raised"
            /\ UNCHANGED <<referendum_results, merged_geo>>
    /\ UNCHANGED <<referendum, regions, departments, regions_and_departments,
                   referendum_and_areas>>

(***************************************************************************)
(* The script (if __name__ == "__main__")                                  *)
(***************************************************************************)
FunctionObject(name) == [type |-> "function", name |-> name]

\* Line 190: the name is bound to the function, which is not called.
MainBindResults ==
    /\ pc = "merged_referendum"
    /\ referendum_results' = FunctionObject("compute_referendum_result_by_regions")
    /\ pc' = "line_191"
    /\ UNCHANGED <<referendum, regions, departments, regions_and_departments,
                   referendum_and_areas, regions_geo, merged_geo, raised>>

\* Line 191: an expression statement, the parenthesised name.
MainExpressionStatement ==
    /\ pc = "line_191"
    /\ pc' = "line_192"
    /\ UNCHANGED <<referendum, regions, departments, regions_and_departments,
                   referendum_and_areas, referendum_results, regions_geo,
                   merged_geo, raised>>

\* Line 192: print(referendum_results).
MainPrint ==
    /\ pc = "line_192"
    /\ pc' = "results_bound"
    /\ UNCHANGED <<referendum, regions, departments, regions_and_departments,
                   referendum_and_areas, referendum_results, regions_geo,
                   merged_geo, raised>>

(***************************************************************************)
(* Specifications: a caller that chains the four functions as their        *)
(* docstrings describe (Spec), and the script as written (SpecMain).       *)
(***************************************************************************)
Init ==
    /\ pc = "start"
    /\ referendum = None
    /\ regions = None
    /\ departments = None
    /\ regions_and_departments = None
    /\ referendum_and_areas = None
    /\ referendum_results = None
    /\ regions_geo = None
    /\ merged_geo = None
    /\ raised = "none"

Next ==
    \/ Load
    \/ MergeRegionsAndDepartments
    \/ MergeReferendumAndAreas
    \/ ComputeReferendumResultByRegions
    \/ PlotReferendumMap

Spec == Init /\ [][Next]_vars

NextMain ==
    \/ Load
    \/ MergeRegionsAndDepartments
    \/ MergeReferendumAndAreas
    \/ MainBindResults
    \/ MainExpressionStatement
    \/ MainPrint
    \/ PlotReferendumMap

SpecMain == Init /\ [][NextMain]_vars

(***************************************************************************)
(* Properties.                                                             *)
(***************************************************************************)
AreasMerged == pc \notin {"start", "loaded"}
ReferendumMerged == pc \notin {"start", "loaded", "merged_areas"}
Aggregated == ReferendumMerged /\ IsDataFrame(referendum_results)
Plotted == pc = "done"

Digits == {"0", "1", "2", "3", "4", "5", "6", "7", "8", "9"}
IsNumeric(code) == \A i \in 1..Len(code) : SubSeq(code, i, i) \in Digits

RECURSIVE Total(_, _, _)
Total(rws, col, I) ==
    IF I = {} THEN 0
    ELSE LET i == CHOOSE x \in I : TRUE
         IN rws[i][col] + Total(rws, col, I \ {i})

Least(I) == CHOOSE i \in I : \A j \in I : i <= j

CountColumns == {"Registered", "Abstentions", "Null", "Choice A", "Choice B"}

\* The department table lists this code.
DepartmentListed(code) ==
    \E i \in DOMAIN departments.rows : departments.rows[i]["code"] = code

\* The region table lists this code.
RegionListed(code) ==
    \E i \in DOMAIN regions.rows : regions.rows[i]["code"] = code

\* The joined rows that come from the ballot record of town i.
JoinedFrom(i) ==
    {j \in DOMAIN referendum_and_areas.rows :
        referendum_and_areas.rows[j]["Town code"] = i}

\* The region has at least one joined ballot row.
Contributing(r) ==
    \E j \in DOMAIN referendum_and_areas.rows :
        referendum_and_areas.rows[j]["code_reg"] = r

UniqueCodes(df) ==
    \A i, j \in DOMAIN df.rows : df.rows[i]["code"] = df.rows[j]["code"] => i = j

\* C1: a ballot record whose department code is a single digit d is matched
\* to the department "0d" whenever the department table lists it.
C1_SingleDigitCodeMatched ==
    ReferendumMerged =>
        \A i \in DOMAIN referendum.rows :
            LET code == referendum.rows[i]["Department code"]
            IN (Len(code) = 1 /\ code \in Digits \ {"0"} /\ DepartmentListed("0" \o code))
                   => \E j \in JoinedFrom(i) :
                          referendum_and_areas.rows[j]["code_dep"] = "0" \o code

\* C2: no ballot record whose department code is a 3-digit overseas code or
\* begins with "Z" is in the output of merge_referendum_and_areas, whatever
\* the department table lists.
C2_OutOfScopeNeverJoined ==
    ReferendumMerged =>
        \A j \in DOMAIN referendum_and_areas.rows :
            LET code == referendum_and_areas.rows[j]["Department code"]
            IN ~ (\/ Len(code) = 3 /\ IsNumeric(code)
                  \/ StartsWith(code, "Z"))

\* C3 as stated: a region whose Choice A + Choice B is 0 gets the missing
\* value as its ratio in the returned table.
C3_ZeroExpressedIsSentinel ==
    Plotted =>
        \A i \in DOMAIN merged_geo.rows :
            LET row == merged_geo.rows[i]
            IN (row["Choice A"] # NaN /\ Val(row["Choice A"]) + Val(row["Choice B"]) = 0)
                   => row["ratio"] = NaN

\* C3 as amended: when the aggregated table has a region whose Choice A +
\* Choice B is 0, the ratio computation does not raise, that region's ratio
\* is the number 0 and every other ratio is Choice A / (Choice A + Choice B).
C3_ZeroExpressedIsZero ==
    (/\ Aggregated
     /\ pc \in {"done", "raised"}
     /\ \E j \in DOMAIN referendum_results.rows :
           referendum_results.rows[j]["Choice A"]
               + referendum_results.rows[j]["Choice B"] = 0)
        => /\ pc = "done"
           /\ raised = "none"
           /\ \A j \in DOMAIN referendum_results.rows :
                 LET row == referendum_results.rows[j]
                     a == row["Choice A"]
                     b == row["Choice B"]
                 IN /\ a + b = 0 => row["ratio"] = <<0, 1>>
                    /\ a + b > 0 => /\ row["ratio"][1] * (a + b) = a * row["ratio"][2]
                                    /\ row["ratio"][2] > 0
           /\ \A i \in DOMAIN merged_geo.rows :
                 LET row == merged_geo.rows[i]
                 IN (row["Choice A"] # NaN
                         /\ Val(row["Choice A"]) + Val(row["Choice B"]) = 0)
                        => row["ratio"] = Some(<<0, 1>>)

C3_Witness ==
    /\ Plotted
    /\ \E i \in DOMAIN merged_geo.rows :
          /\ merged_geo.rows[i]["Choice A"] = Some(0)
          /\ merged_geo.rows[i]["Choice B"] = Some(0)

\* The department rows whose region_code the region table does not list,
\* as the left join returns them.
UnresolvedRows(rc) ==
    LET deps == SelectSeq(departments.rows, LAMBDA d : d["region_code"] = rc)
    IN [i \in DOMAIN deps |->
           ("code_reg" :> rc) @@ ("name_reg" :> NaN)
               @@ ("code_dep" :> deps[i]["code"]) @@ ("name_dep" :> deps[i]["name"])]

\* C4 as stated: a department whose region_code matches no region makes
\* merge_regions_and_departments fail with MissingRegionError, and no table
\* with such a department row is returned.
C4_MissingRegionIsFatal ==
    AreasMerged =>
        \/ \A i \in DOMAIN departments.rows :
               RegionListed(departments.rows[i]["region_code"])
        \/ raised = "MissingRegionError" /\ ~IsDataFrame(regions_and_departments)

\* C4 as amended: merge_regions_and_departments does not raise; it returns a
\* table in which every department whose region_code matches no region is
\* kept, once per department row, with a missing name_reg.
C4_MissingRegionKept ==
    AreasMerged =>
        /\ IsDataFrame(regions_and_departments)
        /\ pc = "merged_areas" => raised = "none"
        /\ \A i \in DOMAIN departments.rows :
               LET rc == departments.rows[i]["region_code"]
               IN ~RegionListed(rc) =>
                      SelectSeq(regions_and_departments.rows,
                                LAMBDA r : r["code_reg"] = rc) = UnresolvedRows(rc)

C4_Witness ==
    /\ pc = "merged_areas"
    /\ \E i \in DOMAIN departments.rows :
          ~RegionListed(departments.rows[i]["region_code"])
    /\ \E i \in DOMAIN regions_and_departments.rows :
          regions_and_departments.rows[i]["name_reg"] = NaN

\* Each ballot record is joined at most once, and the region totals of
\* Registered do not exceed the Registered of the input.
NoDuplication ==
    /\ ReferendumMerged =>
           \A i \in DOMAIN referendum.rows : Cardinality(JoinedFrom(i)) <= 1
    /\ Aggregated =>
           Total(referendum_results.rows, "Registered", DOMAIN referendum_results.rows)
               <= Total(referendum.rows, "Registered", DOMAIN referendum.rows)

\* C5 as stated: for any input tables, repeated codes included, every ballot
\* record appears at most once in the joined table and the sum of Registered
\* over the region results never exceeds that of the ballot records.
C5_NoDuplicationAnyTables == NoDuplication

\* C5 as amended: the same, for region tables and department tables in which
\* no code is repeated.
C5_NoDuplicationUniqueCodes ==
    (AreasMerged /\ UniqueCodes(regions) /\ UniqueCodes(departments)) => NoDuplication

C5_Witness ==
    /\ pc = "results_bound"
    /\ IsDataFrame(referendum_results)
    /\ UniqueCodes(regions) /\ Len(regions.rows) = 2
    /\ UniqueCodes(departments) /\ Len(departments.rows) = 2
    /\ \A i \in DOMAIN referendum.rows : Cardinality(JoinedFrom(i)) = 1
    /\ Len(referendum.rows) = 2

\* One result row per region code of the joined table, holding the sums of
\* the group; its name_reg is given by name(I), I the rows of the group.
GroupTotals(name(_)) ==
    LET ra == referendum_and_areas.rows
        res == referendum_results.rows
        present == {ra[i]["code_reg"] : i \in DOMAIN ra}
    IN /\ {res[j]["code_reg"] : j \in DOMAIN res} = present
       /\ \A r \in present :
              Cardinality({j \in DOMAIN res : res[j]["code_reg"] = r}) = 1
       /\ \A j \in DOMAIN res :
              LET I == {i \in DOMAIN ra : ra[i]["code_reg"] = res[j]["code_reg"]}
              IN /\ \A c \in CountColumns : res[j][c] = Total(ra, c, I)
                 /\ res[j]["name_reg"] = name(I)

NameOfFirstRow(I) == referendum_and_areas.rows[Least(I)]["name_reg"]

NameOfFirstNamedRow(I) ==
    LET named == {i \in I : referendum_and_areas.rows[i]["name_reg"] # NaN}
    IN IF named = {} THEN NaN ELSE referendum_and_areas.rows[Least(named)]["name_reg"]

\* C6 as stated: exactly one row per region code of the joined table, with
\* the sums of the five counts over the rows of that region and the name_reg
\* of the first such row.
C6_NameOfFirstRow == Aggregated => GroupTotals(NameOfFirstRow)

\* C6 as amended: the same, with the name_reg of the first such row whose
\* name_reg is not missing (missing when no such row has one).
C6_NameOfFirstNamedRow == Aggregated => GroupTotals(NameOfFirstNamedRow)

C6_Witness ==
    /\ pc = "results_bound"
    /\ IsDataFrame(referendum_results)
    /\ Len(referendum_results.rows) = 2
    /\ Len(referendum_and_areas.rows) > 2
    /\ \E j \in DOMAIN referendum_results.rows :
          referendum_results.rows[j]["name_reg"] = Some("Rhone-Alpes")

ResultCells == CountColumns \cup {"name_reg", "ratio"}

\* No region without a joined ballot row is in the aggregated table.
NoEmptyRegionAggregated ==
    Aggregated =>
        \A j \in DOMAIN referendum_results.rows :
            Contributing(referendum_results.rows[j]["code_reg"])

\* C7 as stated: a region with no contributing ballot record has no row in
\* the aggregated table and no row in the table plot_referendum_map returns.
C7_EmptyRegionNowhere ==
    /\ NoEmptyRegionAggregated
    /\ Plotted =>
           \A i \in DOMAIN merged_geo.rows : Contributing(merged_geo.rows[i]["code"])

\* C7 as amended: such a region has no row in the aggregated table; the
\* table plot_referendum_map returns has one row per region of the geometry
\* file, in file order, and the row of a region with no contributing ballot
\* record holds missing values for the name, the counts and the ratio.
C7_EmptyRegionOnlyFromGeometry ==
    /\ NoEmptyRegionAggregated
    /\ Plotted =>
           /\ Len(merged_geo.rows) = Len(regions_geo.rows)
           /\ \A i \in DOMAIN merged_geo.rows :
                  LET row == merged_geo.rows[i]
                  IN /\ row["code"] = regions_geo.rows[i]["code"]
                     /\ ~Contributing(row["code"]) =>
                            \A c \in ResultCells : row[c] = NaN
                     /\ Contributing(row["code"]) =>
                            \A c \in CountColumns \cup {"ratio"} : row[c] # NaN

C7_Witness ==
    /\ Plotted
    /\ \E i \in DOMAIN merged_geo.rows :
          /\ RegionListed(merged_geo.rows[i]["code"])
          /\ ~Contributing(merged_geo.rows[i]["code"])
    /\ \E i \in DOMAIN merged_geo.rows : Contributing(merged_geo.rows[i]["code"])

Orphans(ref, deps) ==
    {i \in DOMAIN ref.rows :
        /\ ~StartsWithAny(ref.rows[i]["Department code"], OverseasPrefixes)
        /\ \A k \in DOMAIN deps.rows :
               deps.rows[k]["code"] # ref.rows[i]["Department code"]}

\* The ballot records that pass the prefix filter and match a department.
Matched(ref, deps) ==
    {i \in DOMAIN ref.rows :
        /\ ~StartsWithAny(ref.rows[i]["Department code"], OverseasPrefixes)
        /\ \E k \in DOMAIN deps.rows :
               deps.rows[k]["code"] = ref.rows[i]["Department code"]}

\* Orphans are in no joined row, matched records are, and the run goes on.
OrphansExcluded ==
    ReferendumMerged =>
        /\ IsDataFrame(referendum_and_areas)
        /\ pc = "merged_referendum" => raised = "none"
        /\ \A i \in Orphans(referendum, departments) : JoinedFrom(i) = {}
        /\ \A i \in Matched(referendum, departments) : JoinedFrom(i) # {}
        /\ \A j \in DOMAIN referendum_and_areas.rows :
               /\ referendum_and_areas.rows[j]["Town code"]
                      \in Matched(referendum, departments)
               /\ \E k \in DOMAIN departments.rows :
                      /\ departments.rows[k]["code"]
                             = referendum_and_areas.rows[j]["Department code"]
                      /\ departments.rows[k]["region_code"]
                             = referendum_and_areas.rows[j]["code_reg"]

\* The number of orphans can be told from what merge_referendum_and_areas
\* returns: two referendum tables with the same output have as many orphans.
OrphansCounted ==
    ReferendumMerged =>
        \A other \in ReferendumFiles :
            merge_referendum_and_areas(other, regions_and_departments)
                    = referendum_and_areas
                => Cardinality(Orphans(other, departments))
                       = Cardinality(Orphans(referendum, departments))

\* C9 as stated: a ballot record matching no department is excluded from
\* every region total, is counted in an observable count, and the run goes
\* on with the matched records.
C9_OrphansExcludedAndCounted == OrphansExcluded /\ OrphansCounted

\* C9 as amended: such a record is excluded from every region total and the
\* run goes on with the matched records (no count of orphans is produced).
C9_OrphansExcluded == OrphansExcluded

C9_Witness ==
    /\ pc = "merged_referendum"
    /\ Orphans(referendum, departments) # {}
    /\ Matched(referendum, departments) # {}
    /\ Len(referendum_and_areas.rows) > 0

\* C10: in the script, the value handed to plot_referendum_map is the table
\* compute_referendum_result_by_regions returns for the merged referendum.
C10_PlotGetsAggregate ==
    pc = "results_bound" =>
        referendum_results = compute_referendum_result_by_regions(referendum_and_areas)

====
